---- MODULE Spec2Model ----
(***************************************************************************)
(* Model of the EC go-live gates backend: gates.py (run_ec_gates and its   *)
(* helpers), main.py (POST /run) and sf_client.py (normalize_base_url and  *)
(* SFClient.get_all).                                                      *)
(*                                                                         *)
(* Python strings are sequences of one-character strings, so that strip(), *)
(* lower() and rstrip("/") are computed rather than assumed.  Python None  *)
(* is the value None below, which is no string.  A dict is a sequence of   *)
(* [k, v] entries in insertion order (Python dicts iterate in that order). *)
(*                                                                         *)
(* A Python loop over rows lo..hi is an operator XRange(..., lo, hi, st)   *)
(* that runs the loop body on each row in order, st being the loop's       *)
(* variables; it splits the range in halves (first half, then second half  *)
(* from the state the first leaves), which is the same loop evaluated with *)
(* a recursion depth logarithmic in the number of rows.  Then(first, rest) *)
(* is rest, with first evaluated before it.                                *)
(***************************************************************************)
EXTENDS Integers, Sequences, FiniteSets, TLC

VARIABLES sf, metrics, req, response, snapshots, call

vars == <<sf, metrics, req, response, snapshots, call>>

(***************************************************************************)
(* Strings                                                                 *)
(***************************************************************************)
None == <<"<None>">>

IsSpace(c) == c \in {" ", "\t", "\n"}

RECURSIVE LStrip(_)
LStrip(s) == IF s # <<>> /\ IsSpace(Head(s)) THEN LStrip(Tail(s)) ELSE s

RECURSIVE RStrip(_)
RStrip(s) ==
    IF s # <<>> /\ IsSpace(s[Len(s)]) THEN RStrip(SubSeq(s, 1, Len(s) - 1)) ELSE s

\* str.strip()
Strip(s) == RStrip(LStrip(s))

LowerChar(c) ==
    CASE c = "A" -> "a" [] c = "B" -> "b" [] c = "C" -> "c" [] c = "D" -> "d"
      [] c = "E" -> "e" [] c = "F" -> "f" [] c = "G" -> "g" [] c = "H" -> "h"
      [] c = "I" -> "i" [] c = "J" -> "j" [] c = "K" -> "k" [] c = "L" -> "l"
      [] c = "M" -> "m" [] c = "N" -> "n" [] c = "O" -> "o" [] c = "P" -> "p"
      [] c = "Q" -> "q" [] c = "R" -> "r" [] c = "S" -> "s" [] c = "T" -> "t"
      [] c = "U" -> "u" [] c = "V" -> "v" [] c = "W" -> "w" [] c = "X" -> "x"
      [] c = "Y" -> "y" [] c = "Z" -> "z" [] OTHER -> c

\* str.lower()
Lower(s) == [i \in 1..Len(s) |-> LowerChar(s[i])]

\* str(v): None prints as the four letters "None"
Str(v) == IF v = None THEN <<"N", "o", "n", "e">> ELSE v

Digits == {"0", "1", "2", "3", "4", "5", "6", "7", "8", "9"}

DigitVal(c) ==
    CASE c = "0" -> 0 [] c = "1" -> 1 [] c = "2" -> 2 [] c = "3" -> 3
      [] c = "4" -> 4 [] c = "5" -> 5 [] c = "6" -> 6 [] c = "7" -> 7
      [] c = "8" -> 8 [] c = "9" -> 9

RECURSIVE DecVal(_)
DecVal(s) == IF s = <<>> THEN 0 ELSE 10 * DecVal(SubSeq(s, 1, Len(s) - 1)) + DigitVal(s[Len(s)])

\* The result of a failed int(): the model's codes are naturals, so -1 is
\* free to stand for Python's None in the places that hold "code or None".
NoCode == -1

\* int(v) inside try/except: the value of a decimal literal (surrounding
\* blanks allowed), NoCode when v is None or int() raises.
IntOrNone(v) ==
    IF v = None THEN NoCode
    ELSE LET t == Strip(v)
         IN  IF t # <<>> /\ \A i \in 1..Len(t) : t[i] \in Digits THEN DecVal(t) ELSE NoCode

\* gates.py is_blank
is_blank(v) == v = None \/ Strip(Str(v)) = <<>>

MissingEmailTokens ==
    { <<>>,
      <<"n", "o", "n", "e">>,
      <<"n", "o", "_", "e", "m", "a", "i", "l">>,
      <<"n", "o", " ", "e", "m", "a", "i", "l">>,
      <<"n", "u", "l", "l">>,
      <<"n", "/", "a">>,
      <<"n", "a">>,
      <<"-">>,
      <<"u", "n", "d", "e", "f", "i", "n", "e", "d">> }

\* gates.py is_missing_email_value
is_missing_email_value(v) == v = None \/ Lower(Strip(Str(v))) \in MissingEmailTokens

ActiveTokens == { <<"a", "c", "t", "i", "v", "e">>, <<"t">>, <<"t", "r", "u", "e">>, <<"1">>, <<"a">> }

\* gates.py _user_is_active; u is a User row, NoRow when the caller passes {}
NoRow == [userId |-> None, status |-> <<>>, email |-> None, username |-> None]

_user_is_active(u) == Lower(Strip(Str(u.status))) \in ActiveTokens

(***************************************************************************)
(* Dicts in insertion order                                                *)
(***************************************************************************)
DictHas(d, k) == \E i \in 1..Len(d) : d[i].k = k

DictGet(d, k, dflt) ==
    IF DictHas(d, k) THEN d[CHOOSE i \in 1..Len(d) : d[i].k = k].v ELSE dflt

\* d[k] = v: a present key keeps its position, a new key goes last
DictPut(d, k, v) ==
    IF DictHas(d, k)
    THEN [i \in 1..Len(d) |-> IF d[i].k = k THEN [k |-> k, v |-> v] ELSE d[i]]
    ELSE Append(d, [k |-> k, v |-> v])

Prefix(s, n) == SubSeq(s, 1, IF Len(s) < n THEN Len(s) ELSE n)

Mid(lo, hi) == (lo + hi) \div 2

Then(first, rest) == IF first = first THEN rest ELSE rest

Min(a, b) == IF a < b THEN a ELSE b
Max(a, b) == IF a > b THEN a ELSE b

(***************************************************************************)
(* The acquisition collaborator.  sf is the behaviour of the tenant behind *)
(* an SFClient for the queries one run issues: for each query, get_all     *)
(* either raises (cause = the text of "TypeName: message") or returns rows.*)
(*   sf.probe           probe() succeeds                                   *)
(*   sf.user            /odata/v2/User                                     *)
(*   sf.jobF[i]         /odata/v2/EmpJob, i-th select, latest-change filter*)
(*   sf.jobN[i]         /odata/v2/EmpJob, i-th select, no filter           *)
(*   sf.pl[k], sf.po[k] PicklistLabel / PicklistOption, k = 1 plain ids,   *)
(*                      k = 2 ids with the L suffix                        *)
(*   sf.emp, sf.emp2    /odata/v2/EmpEmployment with and without filter    *)
(***************************************************************************)
NoErr == "None"

Raises(cause) == [raises |-> TRUE, cause |-> cause, rows |-> <<>>]
Returns(rows) == [raises |-> FALSE, cause |-> NoErr, rows |-> rows]

\* The key of an errors[...] entry and the text of a source string: the entity,
\* the variant named in the f-string, and the index of the $select (0: none).
ErrKey(entity, variant, sel) == [entity |-> entity, variant |-> variant, sel |-> sel]

\* gates.py _safe_get_all: (rows or [], None) or ([], "Type: message")
_safe_get_all(resp) ==
    IF resp.raises THEN [rows |-> <<>>, err |-> resp.cause]
    ELSE [rows |-> resp.rows, err |-> NoErr]

\* The four $select lists tried for EmpJob, as the sets of fields they name.
BaseJobFields == {"userId", "managerId", "company", "businessUnit", "division", "department", "location"}

empjob_selects ==
    << BaseJobFields \cup {"emplStatus", "effectiveLatestChange"},
       BaseJobFields \cup {"emplStatus"},
       BaseJobFields \cup {"effectiveLatestChange"},
       BaseJobFields >>

\* ---- USERS (run_ec_gates, "USERS" block) ----
UsersStage(s) ==
    LET g == _safe_get_all(s.user)
    IN  [users |-> g.rows,
         errors |-> IF g.err # NoErr THEN {[k |-> ErrKey("User", "", 0), v |-> g.err]} ELSE {}]

\* "for u in users: if not is_blank(uid): user_by_id[str(uid)] = u"; the same
\* loop builds empjob_by_uid from jobs
RECURSIVE ByUidRange(_, _, _, _)
ByUidRange(rows, lo, hi, d) ==
    IF lo > hi THEN d
    ELSE IF lo = hi
    THEN (IF is_blank(rows[lo].userId) THEN d ELSE DictPut(d, Str(rows[lo].userId), rows[lo]))
    ELSE LET first == ByUidRange(rows, lo, Mid(lo, hi), d)
         IN  Then(first, ByUidRange(rows, Mid(lo, hi) + 1, hi, first))

user_by_id(users) == ByUidRange(users, 1, Len(users), <<>>)

\* ---- EMPJOB: the loop over empjob_selects with the filter ----
RECURSIVE FilteredJobs(_, _)
FilteredJobs(s, i) ==
    IF i > Len(empjob_selects)
    THEN [jobs |-> <<>>, source |-> ErrKey("EmpJob", "", 0), errors |-> {}]
    ELSE LET g == _safe_get_all(s.jobF[i])
         IN  IF g.err = NoErr
             THEN [jobs |-> g.rows, source |-> ErrKey("EmpJob", "select", i), errors |-> {}]
             ELSE LET r == FilteredJobs(s, i + 1)
                  IN  [r EXCEPT !.errors = @ \cup {[k |-> ErrKey("EmpJob", "", i), v |-> g.err]}]

\* ---- EMPJOB: "if not jobs", the loop over empjob_selects without filter ----
RECURSIVE UnfilteredJobs(_, _, _)
UnfilteredJobs(s, i, dflt) ==
    IF i > Len(empjob_selects)
    THEN [jobs |-> dflt.jobs, source |-> dflt.source, errors |-> {}]
    ELSE LET g == _safe_get_all(s.jobN[i])
         IN  IF g.err = NoErr /\ g.rows # <<>>
             THEN [jobs |-> g.rows, source |-> ErrKey("EmpJob", "no-filter, select", i), errors |-> {}]
             ELSE LET r == UnfilteredJobs(s, i + 1, dflt)
                  IN  IF g.err # NoErr
                      THEN [r EXCEPT !.errors = @ \cup {[k |-> ErrKey("EmpJob", "no-filter", i), v |-> g.err]}]
                      ELSE r

JobsStage(s) ==
    LET f == FilteredJobs(s, 1)
    IN  IF f.jobs = <<>>
        THEN LET n == UnfilteredJobs(s, 1, f)
             IN  [jobs |-> n.jobs, source |-> n.source, errors |-> f.errors \cup n.errors]
        ELSE f

\* j["_emplStatusCode"]: int(emplStatus), None when absent or not a number
_emplStatusCode(j) == IntOrNone(j.emplStatus)

\* empl_codes: the codes of the rows that have one, in row order
RECURSIVE EmplCodesRange(_, _, _)
EmplCodesRange(jobs, lo, hi) ==
    IF lo > hi THEN <<>>
    ELSE IF lo = hi
    THEN (IF _emplStatusCode(jobs[lo]) # NoCode THEN <<_emplStatusCode(jobs[lo])>> ELSE <<>>)
    ELSE EmplCodesRange(jobs, lo, Mid(lo, hi)) \o EmplCodesRange(jobs, Mid(lo, hi) + 1, hi)

empl_codes(jobs) == EmplCodesRange(jobs, 1, Len(jobs))

\* ---- _fetch_status_labels ----
\* PicklistLabel rows {optionId, label}: labels[int(optionId)] = label.strip()
RECURSIVE LabelsFromPL(_, _, _)
LabelsFromPL(rows, i, d) ==
    IF i > Len(rows) THEN d
    ELSE LET oid == IntOrNone(rows[i].optionId)
             lab == rows[i].label
         IN  LabelsFromPL(rows, i + 1,
                IF oid # NoCode /\ lab # None /\ Strip(lab) # <<>>
                THEN DictPut(d, oid, Strip(lab)) ELSE d)

\* first label of pls whose locale is the wanted one, else the first non-blank
\* label, else None; pls = None when the row carries no label list
LabelFound(pls, locale) ==
    IF pls = None THEN None
    ELSE LET hit(x) == Strip(Str(x.locale)) = locale /\ Strip(Str(x.label)) # <<>>
             any(x) == Strip(Str(x.label)) # <<>>
         IN  IF \E i \in 1..Len(pls) : hit(pls[i])
             THEN Strip(Str(pls[CHOOSE i \in 1..Len(pls) :
                                   hit(pls[i]) /\ \A k \in 1..(i - 1) : ~hit(pls[k])].label))
             ELSE IF \E i \in 1..Len(pls) : any(pls[i])
             THEN Strip(Str(pls[CHOOSE i \in 1..Len(pls) :
                                   any(pls[i]) /\ \A k \in 1..(i - 1) : ~any(pls[k])].label))
             ELSE None

RECURSIVE LabelsFromPO(_, _, _, _)
LabelsFromPO(rows, locale, i, d) ==
    IF i > Len(rows) THEN d
    ELSE LET oid == IntOrNone(rows[i].optionId)
             found == IF oid = NoCode THEN None ELSE LabelFound(rows[i].picklistLabels, locale)
         IN  LabelsFromPO(rows, locale, i + 1,
                IF found # None /\ found # <<>> THEN DictPut(d, oid, found) ELSE d)

LOCALE == <<"e", "n", "_", "U", "S">>

\* The code asks in chunks of 40 (PicklistLabel) and 25 (PicklistOption) ids; the
\* tenants of this model have at most 25 distinct codes, so each pass is one query.
_fetch_status_labels(s, option_ids) ==
    IF option_ids = <<>> THEN [labels |-> <<>>, source |-> "no-status-codes"]
    ELSE LET pl1 == _safe_get_all(s.pl[1])
             pl2 == _safe_get_all(s.pl[2])
             po1 == _safe_get_all(s.po[1])
             po2 == _safe_get_all(s.po[2])
             a1  == LabelsFromPL(pl1.rows, 1, <<>>)
             a2  == LabelsFromPL(pl2.rows, 1, a1)
             b1  == LabelsFromPO(po1.rows, LOCALE, 1, <<>>)
             b2  == LabelsFromPO(po2.rows, LOCALE, 1, b1)
         IN  IF pl1.err = NoErr /\ a1 # <<>> THEN [labels |-> a1, source |-> "PicklistLabel(suffix=none)"]
             ELSE IF pl2.err = NoErr /\ a2 # <<>> THEN [labels |-> a2, source |-> "PicklistLabel(suffix=L)"]
             ELSE IF po1.err = NoErr /\ b1 # <<>> THEN [labels |-> b1, source |-> "PicklistOption+picklistLabels(suffix=none)"]
             ELSE IF po2.err = NoErr /\ b2 # <<>> THEN [labels |-> b2, source |-> "PicklistOption+picklistLabels(suffix=L)"]
             ELSE [labels |-> <<>>, source |-> "labels blocked/unavailable"]

(***************************************************************************)
(* Status and classification (run_ec_gates, "Infer which emplStatus code   *)
(* is Active" and "Active / Inactive employees")                           *)
(***************************************************************************)
empjob_by_uid(jobs) == ByUidRange(jobs, 1, Len(jobs), <<>>)

sActive == <<"a", "c", "t", "i", "v", "e">>

IsActiveLabel(name) == Lower(Strip(Str(name))) = sActive

\* "if status_labels: for code, name in status_labels.items(): ... break":
\* the first code, in dict order, whose label is "active"; NoCode when none is
ActiveCodeByLabel(status_labels) ==
    IF \E i \in 1..Len(status_labels) : IsActiveLabel(status_labels[i].v)
    THEN status_labels[CHOOSE i \in 1..Len(status_labels) :
                          /\ IsActiveLabel(status_labels[i].v)
                          /\ \A k \in 1..(i - 1) : ~IsActiveLabel(status_labels[k].v)].k
    ELSE NoCode

Occurrences(xs, x) == Cardinality({i \in 1..Len(xs) : xs[i] = x})

\* Counter(xs).most_common(1)[0][0] for non-empty xs: the most frequent
\* element, the one met first among equally frequent ones
MostCommon(xs) ==
    xs[CHOOSE i \in 1..Len(xs) :
          /\ \A k \in 1..Len(xs) : Occurrences(xs, xs[k]) <= Occurrences(xs, xs[i])
          /\ \A k \in 1..(i - 1) : Occurrences(xs, xs[k]) < Occurrences(xs, xs[i])]

\* candidates: for each user (dict order) that _user_is_active and has an
\* EmpJob row with a code, that code
RECURSIVE CandidatesRange(_, _, _, _)
CandidatesRange(ubi, ebu, lo, hi) ==
    IF lo > hi THEN <<>>
    ELSE IF lo = hi
    THEN (IF /\ _user_is_active(ubi[lo].v)
             /\ DictHas(ebu, ubi[lo].k)
             /\ _emplStatusCode(DictGet(ebu, ubi[lo].k, NoRow)) # NoCode
          THEN <<_emplStatusCode(DictGet(ebu, ubi[lo].k, NoRow))>>
          ELSE <<>>)
    ELSE CandidatesRange(ubi, ebu, lo, Mid(lo, hi)) \o CandidatesRange(ubi, ebu, Mid(lo, hi) + 1, hi)

inferred_active_code(status_labels, ubi, ebu, codes) ==
    LET byLabel == ActiveCodeByLabel(status_labels)
        cands   == CandidatesRange(ubi, ebu, 1, Len(ubi))
    IN  IF byLabel # NoCode THEN byLabel
        ELSE IF cands # <<>> THEN MostCommon(cands)
        ELSE IF codes # <<>> THEN MostCommon(codes)
        ELSE NoCode

\* the test of the two classification loops: with an inferred code, the row's
\* code equals it; without one, the User row of str(userId) is active
IsActiveJob(j, inferred, ubi) ==
    IF inferred # NoCode
    THEN _emplStatusCode(j) = inferred
    ELSE _user_is_active(DictGet(ubi, Str(j.userId), NoRow))

\* a variant of ClassifyStep that files under inactive only the rows that have a code
ClassifyStepCodedOnly(j, inferred, ubi, st) ==
    IF IsActiveJob(j, inferred, ubi)
    THEN [st EXCEPT !.active_jobs = Append(@, j)]
    ELSE IF _emplStatusCode(j) # NoCode THEN [st EXCEPT !.inactive_jobs = Append(@, j)]
    ELSE st

\* the body of "for j in jobs": if <test>: active_jobs.append(j) else: inactive_jobs.append(j)
ClassifyStep(j, inferred, ubi, st) ==
    IF IsActiveJob(j, inferred, ubi)
    THEN [st EXCEPT !.active_jobs = Append(@, j)]
    ELSE [st EXCEPT !.inactive_jobs = Append(@, j)]

RECURSIVE ClassifyRange(_, _, _, _, _, _)
ClassifyRange(jobs, inferred, ubi, lo, hi, st) ==
    IF lo > hi THEN st
    ELSE IF lo = hi THEN ClassifyStep(jobs[lo], inferred, ubi, st)
    ELSE LET first == ClassifyRange(jobs, inferred, ubi, lo, Mid(lo, hi), st)
         IN  Then(first, ClassifyRange(jobs, inferred, ubi, Mid(lo, hi) + 1, hi, first))

Classify(jobs, inferred, ubi) ==
    ClassifyRange(jobs, inferred, ubi, 1, Len(jobs), [active_jobs |-> <<>>, inactive_jobs |-> <<>>])

(***************************************************************************)
(* Gates over the active rows                                              *)
(***************************************************************************)
MAX_SAMPLE == 200
MAX_USERS_PER_DUP_EMAIL == 10

\* a variant of SampleAdd without the cap
SampleAddUncapped(sample, entry) == Append(sample, entry)

\* a sample list takes an entry only while it is shorter than MAX_SAMPLE
SampleAdd(sample, entry) == IF Len(sample) < MAX_SAMPLE THEN Append(sample, entry) ELSE sample

\* active_uids = [str(userId) of the active rows whose userId is not blank]
RECURSIVE ActiveUidsRange(_, _, _)
ActiveUidsRange(act, lo, hi) ==
    IF lo > hi THEN <<>>
    ELSE IF lo = hi THEN (IF is_blank(act[lo].userId) THEN <<>> ELSE <<Str(act[lo].userId)>>)
    ELSE ActiveUidsRange(act, lo, Mid(lo, hi)) \o ActiveUidsRange(act, Mid(lo, hi) + 1, hi)

active_uids(act) == ActiveUidsRange(act, 1, Len(act))

\* email = "" if raw is None else str(raw).strip()
EmailOf(u) == IF u.email = None THEN <<>> ELSE Strip(u.email)

\* the loop "for uid in active_uids": st = [count, sample, groups], groups being
\* email_to_users, a dict from the lower-cased email to the list of its uids
\* a variant of EmailStep that groups by the email as written
EmailStepCaseSensitive(uid, ubi, st) ==
    LET u     == DictGet(ubi, uid, NoRow)
        email == EmailOf(u)
    IN  IF is_missing_email_value(email)
        THEN [st EXCEPT !.count = @ + 1,
                        !.sample = SampleAdd(@, [userId |-> uid, email |-> email,
                                                 username |-> u.username])]
        ELSE [st EXCEPT !.groups = DictPut(@, email, Append(DictGet(@, email, <<>>), uid))]

EmailStep(uid, ubi, st) ==
    LET u     == DictGet(ubi, uid, NoRow)
        email == EmailOf(u)
        norm  == Lower(email)
    IN  IF is_missing_email_value(email)
        THEN [st EXCEPT !.count = @ + 1,
                        !.sample = SampleAdd(@, [userId |-> uid, email |-> email,
                                                 username |-> u.username])]
        ELSE [st EXCEPT !.groups = DictPut(@, norm, Append(DictGet(@, norm, <<>>), uid))]

RECURSIVE EmailRange(_, _, _, _, _)
EmailRange(uids, ubi, lo, hi, st) ==
    IF lo > hi THEN st
    ELSE IF lo = hi THEN EmailStep(uids[lo], ubi, st)
    ELSE LET first == EmailRange(uids, ubi, lo, Mid(lo, hi), st)
         IN  Then(first, EmailRange(uids, ubi, Mid(lo, hi) + 1, hi, first))

EmailStage(act, ubi) ==
    EmailRange(active_uids(act), ubi, 1, Len(active_uids(act)),
               [count |-> 0, sample |-> <<>>, groups |-> <<>>])

\* sum((len(uids) - 1) for groups with len(uids) > 1)
RECURSIVE DuplicateCountRange(_, _, _)
DuplicateCountRange(groups, lo, hi) ==
    IF lo > hi THEN 0
    ELSE IF lo = hi THEN (IF Len(groups[lo].v) > 1 THEN Len(groups[lo].v) - 1 ELSE 0)
    ELSE DuplicateCountRange(groups, lo, Mid(lo, hi)) + DuplicateCountRange(groups, Mid(lo, hi) + 1, hi)

duplicate_email_count(groups) == DuplicateCountRange(groups, 1, Len(groups))

RECURSIVE DupRowsRange(_, _, _)
DupRowsRange(groups, lo, hi) ==
    IF lo > hi THEN <<>>
    ELSE IF lo = hi
    THEN (IF Len(groups[lo].v) > 1
          THEN << [email |-> groups[lo].k, count |-> Len(groups[lo].v),
                   sampleUserIds |-> Prefix(groups[lo].v, MAX_USERS_PER_DUP_EMAIL)] >>
          ELSE <<>>)
    ELSE DupRowsRange(groups, lo, Mid(lo, hi)) \o DupRowsRange(groups, Mid(lo, hi) + 1, hi)

\* list.sort(key=count, reverse=True) is stable with larger counts first: a row
\* goes after the rows already placed whose count is not smaller
InsertByCount(sorted, row) ==
    LET n == Cardinality({i \in 1..Len(sorted) : sorted[i].count >= row.count})
    IN  SubSeq(sorted, 1, n) \o <<row>> \o SubSeq(sorted, n + 1, Len(sorted))

RECURSIVE SortByCountRange(_, _, _, _)
SortByCountRange(rows, lo, hi, acc) ==
    IF lo > hi THEN acc
    ELSE IF lo = hi THEN InsertByCount(acc, rows[lo])
    ELSE LET first == SortByCountRange(rows, lo, Mid(lo, hi), acc)
         IN  Then(first, SortByCountRange(rows, Mid(lo, hi) + 1, hi, first))

duplicate_email_sample(groups) ==
    LET dup_rows == DupRowsRange(groups, 1, Len(groups))
    IN  Prefix(SortByCountRange(dup_rows, 1, Len(dup_rows), <<>>), MAX_SAMPLE)

ORG_FIELDS == <<"company", "businessUnit", "division", "department", "location">>

RECURSIVE MissingFieldsFrom(_, _)
MissingFieldsFrom(j, i) ==
    IF i > Len(ORG_FIELDS) THEN <<>>
    ELSE (IF is_blank(j[ORG_FIELDS[i]]) THEN <<ORG_FIELDS[i]>> ELSE <<>>) \o MissingFieldsFrom(j, i + 1)

\* the loop "for j in active_jobs" of the org and manager checks
OrgStep(j, st) ==
         LET mf == MissingFieldsFrom(j, 1)
             s1 == IF is_blank(j.managerId)
                   THEN [st EXCEPT !.mm_count = @ + 1,
                                   !.mm_sample = SampleAdd(@, [userId |-> j.userId,
                                                               emplStatusCode |-> _emplStatusCode(j),
                                                               managerId |-> j.managerId])]
                   ELSE st
             s2 == IF mf # <<>>
                   THEN [s1 EXCEPT !.io_count = @ + 1,
                                   !.field_counts = [f \in DOMAIN @ |->
                                        @[f] + (IF \E k \in 1..Len(mf) : mf[k] = f THEN 1 ELSE 0)],
                                   !.io_sample = SampleAdd(@, [userId |-> j.userId,
                                                               emplStatusCode |-> _emplStatusCode(j),
                                                               missingFields |-> mf,
                                                               managerId |-> j.managerId])]
                   ELSE s1
         IN  s2

RECURSIVE OrgRange(_, _, _, _)
OrgRange(act, lo, hi, st) ==
    IF lo > hi THEN st
    ELSE IF lo = hi THEN OrgStep(act[lo], st)
    ELSE LET first == OrgRange(act, lo, Mid(lo, hi), st)
         IN  Then(first, OrgRange(act, Mid(lo, hi) + 1, hi, first))

OrgStage(act) ==
    OrgRange(act, 1, Len(act), [mm_count |-> 0, mm_sample |-> <<>>, io_count |-> 0, io_sample |-> <<>>,
                     field_counts |-> [f \in {ORG_FIELDS[k] : k \in 1..Len(ORG_FIELDS)} |-> 0]])

\* inactive_users_sample: one entry per row of inactive_jobs[:MAX_SAMPLE]
inactive_users_sample(inact) ==
    [i \in 1..Len(Prefix(inact, MAX_SAMPLE)) |->
        [userId |-> inact[i].userId, emplStatusCode |-> _emplStatusCode(inact[i])]]

(***************************************************************************)
(* Contingent workers                                                      *)
(***************************************************************************)
TrueTokens == { <<"t", "r", "u", "e">>, <<"t">>, <<"1">>, <<"y", "e", "s">>, <<"y">> }

\* the two EmpEmployment queries: [rows, source, errors]
EmploymentStage(s) ==
    LET g == _safe_get_all(s.emp)
    IN  IF g.err # NoErr
        THEN LET g2 == _safe_get_all(s.emp2)
             IN  IF g2.err # NoErr
                 THEN [rows |-> g.rows, source |-> "not-available",
                       errors |-> {[k |-> ErrKey("EmpEmployment", "", 0), v |-> g2.err]}]
                 ELSE [rows |-> g2.rows, source |-> "EmpEmployment.isContingentWorker (no-filter)",
                       errors |-> {}]
        ELSE [rows |-> g.rows, source |-> "EmpEmployment.isContingentWorker", errors |-> {}]

contingent_uids(rows) ==
    { Str(rows[i].userId) : i \in { k \in 1..Len(rows) :
          /\ ~is_blank(rows[k].userId)
          /\ Lower(Strip(Str(rows[k].isContingentWorker))) \in TrueTokens } }

\* list(contingent_uids)[:MAX_SAMPLE]: a set has no order the program fixes, so
\* the uids sampled are any MAX_SAMPLE of them (all of them when there are no more)
ContingentSampleChoices(uids) ==
    IF Cardinality(uids) <= MAX_SAMPLE THEN {uids}
    ELSE IF Cardinality(uids) = MAX_SAMPLE + 1 THEN { uids \ {x} : x \in uids }
    ELSE { t \in SUBSET uids : Cardinality(t) = MAX_SAMPLE }

contingent_workers_sample(chosen, ebu) ==
    { [userId |-> uid, isContingentWorker |-> TRUE,
       emplStatusCode |-> IF DictHas(ebu, uid) THEN _emplStatusCode(DictGet(ebu, uid, NoRow)) ELSE NoCode]
      : uid \in chosen }

(***************************************************************************)
(* Risk score.  A percentage is kept in hundredths (12.34% is 1234), which *)
(* is what round(..., 2) leaves; the float divisions are computed exactly. *)
(***************************************************************************)
\* round() to the nearest, ties to even, of n / d
RoundDiv(n, d) ==
    LET q == n \div d
        r == n % d
    IN  IF 2 * r < d THEN q
        ELSE IF 2 * r > d THEN q + 1
        ELSE IF q % 2 = 0 THEN q ELSE q + 1

\* pct(x) = 0.0 if total_active == 0 else round((x / total_active) * 100, 2)
pct(x, total_active) == IF total_active = 0 THEN 0 ELSE RoundDiv(10000 * x, total_active)

\* a variant of risk_score that caps the email terms at 40 as well
risk_scoreEmailCap40(mm, io, me, dup, total_active) ==
    Min(40, (pct(mm, total_active) * 2) \div 100)
    + Min(40, (pct(io, total_active) * 2) \div 100)
    + Min(40, pct(me, total_active) \div 100)
    + Min(40, (dup * 100) \div Max(1, total_active))

risk_score(mm, io, me, dup, total_active) ==
    LET risk == Min(40, (pct(mm, total_active) * 2) \div 100)
              + Min(40, (pct(io, total_active) * 2) \div 100)
              + Min(10, pct(me, total_active) \div 100)
              + Min(10, (dup * 100) \div Max(1, total_active))
    IN  Min(100, risk)

(***************************************************************************)
(* run_ec_gates(sf)                                                        *)
(***************************************************************************)
\* the locals of one run over the tenant s
Locals(s) ==
    LET us   == UsersStage(s)
        ubi  == user_by_id(us.users)
        js   == JobsStage(s)
        jobs == js.jobs
        codes == empl_codes(jobs)
        ls   == _fetch_status_labels(s, codes)
        ebu  == empjob_by_uid(jobs)
        inf  == inferred_active_code(ls.labels, ubi, ebu, codes)
        cl   == Classify(jobs, inf, ubi)
        act  == cl.active_jobs
        inact == cl.inactive_jobs
        em   == EmailStage(act, ubi)
        og   == OrgStage(act)
        es   == EmploymentStage(s)
    IN  [users |-> us.users, user_by_id |-> ubi, jobs |-> jobs, empjob_source |-> js.source,
         empl_codes |-> codes, status_labels |-> ls.labels, status_label_source |-> ls.source,
         empjob_by_uid |-> ebu, inferred_active_code |-> inf,
         active_jobs |-> act, inactive_jobs |-> inact,
         email |-> em, org |-> og, emp_emp |-> es.rows, contingent_source |-> es.source,
         contingent_uids |-> contingent_uids(es.rows),
         errors |-> us.errors \cup js.errors \cup es.errors]

\* the metrics dict returned for the locals l, chosen being the uids sampled
\* from contingent_uids
Metrics(l, chosen) ==
    LET total_active == Len(l.active_jobs)
        dup == duplicate_email_count(l.email.groups)
    IN  [snapshot_time_utc |-> "now",
         active_users |-> total_active,
         inactive_users |-> Len(l.inactive_jobs),
         empjob_rows |-> Len(l.jobs),
         missing_manager_count |-> l.org.mm_count,
         missing_manager_pct |-> pct(l.org.mm_count, total_active),
         invalid_org_count |-> l.org.io_count,
         invalid_org_pct |-> pct(l.org.io_count, total_active),
         missing_email_count |-> l.email.count,
         duplicate_email_count |-> dup,
         contingent_workers |-> Cardinality(l.contingent_uids),
         contingent_source |-> l.contingent_source,
         risk_score |-> risk_score(l.org.mm_count, l.org.io_count, l.email.count, dup, total_active),
         employee_status_source |->
             IF l.inferred_active_code # NoCode THEN "EmpJob.emplStatus" ELSE "fallback(User.status)",
         empjob_source |-> l.empjob_source,
         emplstatus_label_source |-> l.status_label_source,
         active_emplStatus_code_inferred |-> l.inferred_active_code,
         missing_email_sample |-> l.email.sample,
         duplicate_email_sample |-> duplicate_email_sample(l.email.groups),
         invalid_org_sample |-> l.org.io_sample,
         org_missing_field_counts |-> l.org.field_counts,
         missing_manager_sample |-> l.org.mm_sample,
         inactive_users_sample |-> inactive_users_sample(l.inactive_jobs),
         contingent_workers_sample |-> contingent_workers_sample(chosen, l.empjob_by_uid),
         errors |-> l.errors]

\* the set of dicts run_ec_gates(sf) may return for the tenant s; the function
\* has no raise and no failing return: every call yields a metrics dict
run_ec_gates(s) ==
    LET l == Locals(s) IN { Metrics(l, chosen) : chosen \in ContingentSampleChoices(l.contingent_uids) }

(***************************************************************************)
(* main.py: POST /run                                                      *)
(***************************************************************************)
RECURSIVE RStripSlash(_)
RStripSlash(u) == IF u # <<>> /\ u[Len(u)] = "/" THEN RStripSlash(SubSeq(u, 1, Len(u) - 1)) ELSE u

\* sf_client.py normalize_base_url: (u or "").strip(), then rstrip("/")
normalize_base_url(u) ==
    LET t == IF u = None THEN <<>> ELSE Strip(u)
    IN  IF t = <<>> THEN <<>> ELSE RStripSlash(t)

\* what a call of run_ec_gates, or of a function calling it, comes to
NoMetrics == [snapshot_time_utc |-> ""]
Returned(m) == [raised |-> FALSE, cause |-> NoErr, metrics |-> m]
Raised(cause) == [raised |-> TRUE, cause |-> cause, metrics |-> NoMetrics]

\* "def run_ec_gates(sf) -> dict": the names a call may bind
run_ec_gates_parameters == {"sf"}

\* main.py _run_ec_gates_compat: instance_url and api_base_url are always
\* passed by keyword, company_id only if the signature names it; Python
\* raises TypeError for a keyword the signature does not name
_run_ec_gates_compat(s) ==
    LET kwargs == {"instance_url", "api_base_url"}
                  \cup (IF "company_id" \in run_ec_gates_parameters THEN {"company_id"} ELSE {})
    IN  IF kwargs \subseteq run_ec_gates_parameters
        THEN { Returned(m) : m \in run_ec_gates(s) }
        ELSE { Raised("run_ec_gates() got an unexpected keyword argument 'instance_url'") }

\* a variant of HTTPException that leaves a snapshot behind
HTTPExceptionAfterInsert(snaps, status, detail) ==
    [response |-> [status |-> status, ok |-> FALSE, detail |-> detail, metrics |-> NoMetrics],
     snapshots |-> Append(snaps, [metrics |-> NoMetrics])]

\* raise HTTPException(status, detail): the response, and the table as it was
HTTPException(snaps, status, detail) ==
    [response |-> [status |-> status, ok |-> FALSE, detail |-> detail, metrics |-> NoMetrics],
     snapshots |-> snaps]

\* db.add(Snapshot(metrics=metrics)); db.commit(); return {"ok": True, ...}
PersistAndReturn(snaps, m) ==
    [response |-> [status |-> 200, ok |-> TRUE, detail |-> <<>>, metrics |-> m],
     snapshots |-> Append(snaps, [metrics |-> m])]

\* main.py make_sf_client: the HTTP 400 it raises, "" when it builds the client
make_sf_client(api_base_url, username, password) ==
    IF normalize_base_url(api_base_url) = <<>> THEN "Missing api_base_url"
    ELSE IF Strip(IF username = None THEN <<>> ELSE username) = <<>>
            \/ password = None \/ password = <<>> THEN "Missing username or password"
    ELSE ""

\* main.py run_now: the outcomes [response, snapshots] of one request r
\* against tenant s with the snapshots table snaps
run_now(r, s, snaps) ==
    LET instance_url == normalize_base_url(r.instance_url)
        api_base_url == normalize_base_url(r.api_base_url)
        cid          == IF r.company_id = None THEN <<>> ELSE Strip(r.company_id)
        client       == make_sf_client(api_base_url, r.username, r.password)
        scoped(m)    == [instance_url |-> instance_url, api_base_url |-> api_base_url,
                         company_id |-> cid, core |-> m]
        after(out)   ==
            IF out.raised
            THEN HTTPException(snaps, 500, <<"Run failed: ", out.cause>>)
            ELSE IF out.metrics.snapshot_time_utc = ""
            THEN HTTPException(snaps, 500, <<"Run produced empty metrics (guard blocked saving)">>)
            ELSE PersistAndReturn(snaps, scoped(out.metrics))
    IN  IF instance_url = <<>> THEN { HTTPException(snaps, 400, <<"Missing instance_url">>) }
        ELSE IF api_base_url = <<>> THEN { HTTPException(snaps, 400, <<"Missing api_base_url">>) }
        ELSE IF client # "" THEN { HTTPException(snaps, 400, <<client>>) }
        ELSE IF ~s.probe
        THEN { HTTPException(snaps, 400, <<"Invalid API base URL or credentials">>) }
        ELSE { after(out) : out \in _run_ec_gates_compat(s) }

(***************************************************************************)
(* Tenants: the bounded set of tenant behaviours the runs are checked on.  *)
(* A tenant is built from a population (one person per EmpJob row, with    *)
(* the User and EmpEmployment rows of that person) and from the way each   *)
(* query fails or answers.                                                 *)
(***************************************************************************)
DigitChar(d) ==
    CASE d = 0 -> "0" [] d = 1 -> "1" [] d = 2 -> "2" [] d = 3 -> "3" [] d = 4 -> "4"
      [] d = 5 -> "5" [] d = 6 -> "6" [] d = 7 -> "7" [] d = 8 -> "8" [] d = 9 -> "9"

RECURSIVE Dec(_)
Dec(n) == IF n < 10 THEN <<DigitChar(n)>> ELSE Dec(n \div 10) \o <<DigitChar(n % 10)>>

Uid(i) == <<"U">> \o Dec(i)

sSet == <<"x">>
sBlank == <<" ", " ">>
sMgr == <<"M", "1">>
sCode1 == <<"1">>
sCode2 == <<"2">>
sT == <<"t">>
sF == <<"f">>
sLabelActive == <<"A", "c", "t", "i", "v", "e">>
sLabelACTIVE == <<" ", "A", "C", "T", "I", "V", "E", " ">>
sLabelTerminated == <<"T", "e", "r", "m", "i", "n", "a", "t", "e", "d">>
sContractor == <<"C", "o", "n", "t", "r", "a", "c", "t", "o", "r">>
sRegular == <<"R", "e", "g">>
sTrue == <<"T", "r", "u", "e">>
sFalse == <<"f", "a", "l", "s", "e">>
sMailA == <<"a", "@", "x">>
sMailA2 == <<" ", "A", "@", "X", " ">>
sMailB == <<"b", "@", "x">>
sMailC == <<"c", "@", "x">>
sMailNA == <<"N", "/", "A">>

\* A person with everything in order: active by code 1 and by User.status,
\* manager and org fields set, own email, not contingent.
Person(i) ==
    [userId |-> Uid(i), managerId |-> sMgr, company |-> sSet, businessUnit |-> sSet,
     division |-> sSet, department |-> sSet, location |-> sSet, emplStatus |-> sCode1,
     employeeClass |-> sRegular, hasUser |-> TRUE, status |-> sT,
     email |-> <<"e">> \o Dec(i) \o <<"@", "x">>, username |-> Uid(i),
     isContingentWorker |-> sFalse]

\* the EmpJob row of a person for a $select: a field the select does not name is absent
JobRow(p, sel) ==
    [userId |-> p.userId, managerId |-> p.managerId, company |-> p.company,
     businessUnit |-> p.businessUnit, division |-> p.division, department |-> p.department,
     location |-> p.location,
     emplStatus |-> IF "emplStatus" \in empjob_selects[sel] THEN p.emplStatus ELSE None,
     employeeClass |-> p.employeeClass]

JobRows(pop, sel) == [i \in 1..Len(pop) |-> JobRow(pop[i], sel)]

RECURSIVE UserRowsRange(_, _, _)
UserRowsRange(pop, lo, hi) ==
    IF lo > hi THEN <<>>
    ELSE IF lo = hi
    THEN (IF pop[lo].hasUser
          THEN << [userId |-> pop[lo].userId, status |-> pop[lo].status,
                   email |-> pop[lo].email, username |-> pop[lo].username] >>
          ELSE <<>>)
    ELSE UserRowsRange(pop, lo, Mid(lo, hi)) \o UserRowsRange(pop, Mid(lo, hi) + 1, hi)

EmpRows(pop) ==
    [i \in 1..Len(pop) |-> [userId |-> pop[i].userId, isContingentWorker |-> pop[i].isContingentWorker]]

\* how one EmpJob attempt goes: "err" (the server rejects the query), "down"
\* (the request times out), "empty" or "rows"
JobResp(pop, kind, sel) ==
    IF kind = "err" THEN Raises("HTTPError: 400 Client Error")
    ELSE IF kind = "down" THEN Raises("ConnectionError: timed out")
    ELSE IF kind = "empty" THEN Returns(<<>>)
    ELSE Returns(JobRows(pop, sel))

\* the rows of a label table the server returns: those of the codes asked for
RECURSIVE TableRowsFrom(_, _, _)
TableRowsFrom(table, pop, i) ==
    IF i > Len(table) THEN <<>>
    ELSE (IF \E k \in 1..Len(pop) : IntOrNone(pop[k].emplStatus) = IntOrNone(table[i].optionId)
          THEN <<table[i]>> ELSE <<>>) \o TableRowsFrom(table, pop, i + 1)

\* label rows in the shape of each entity; a strategy before `via` is refused
\* (via 1..4: PicklistLabel plain, PicklistLabel L, PicklistOption plain,
\* PicklistOption L; 5: all refused)
LabelResp(table, pop, via, k) ==
    LET rows == TableRowsFrom(table, pop, 1)
    IN  IF k < via \/ via = 5 THEN Raises("HTTPError: 403 Client Error")
        ELSE IF k <= 2 THEN Returns(rows)
        ELSE Returns([i \in 1..Len(rows) |->
                        [optionId |-> rows[i].optionId,
                         picklistLabels |-> << [locale |-> <<"d", "e">>, label |-> sBlank],
                                               [locale |-> LOCALE, label |-> rows[i].label] >>]])

Tenant(pop, probe, user, jf, jn, table, via, emp) ==
    [probe |-> probe,
     user  |-> IF user = "err" THEN Raises("HTTPError: 403 Client Error") ELSE Returns(UserRowsRange(pop, 1, Len(pop))),
     jobF  |-> [i \in 1..Len(empjob_selects) |-> JobResp(pop, jf[i], i)],
     jobN  |-> [i \in 1..Len(empjob_selects) |-> JobResp(pop, jn[i], i)],
     pl    |-> [k \in 1..2 |-> LabelResp(table, pop, via, k)],
     po    |-> [k \in 1..2 |-> LabelResp(table, pop, via, k + 2)],
     emp   |-> IF emp = "ok" THEN Returns(EmpRows(pop)) ELSE Raises("HTTPError: 400 Client Error"),
     emp2  |-> IF emp = "down" THEN Raises("ConnectionError: timed out") ELSE Returns(EmpRows(pop))]

\* ---- bounds of the tenant families ----
MaxClassPop == 3
MaxGatePop == 2
MaxRiskDefects == 2

AllRows == [i \in 1..Len(empjob_selects) |-> "rows"]

LabelRow(code, label) == [optionId |-> code, label |-> label]

ActiveTable == << LabelRow(sCode1, sLabelActive), LabelRow(sCode2, sLabelTerminated) >>

Healthy(pop, table) == Tenant(pop, TRUE, "ok", AllRows, AllRows, table, 1, "ok")

\* Classification family: the rows differ in status code and in User.status
ClassChoices ==
    [code : {sCode1, sCode2}, user : {"t", "f"}]
    \cup { [code |-> None, user |-> "t"], [code |-> None, user |-> "none"] }

ClassPerson(i, c) ==
    [Person(i) EXCEPT !.emplStatus = c.code, !.hasUser = (c.user # "none"),
                      !.status = IF c.user = "t" THEN sT ELSE sF]

ClassPop(n, f) == [i \in 1..n |-> ClassPerson(i, f[i])]

LabelTables ==
    { <<>>,
      << LabelRow(sCode1, sLabelActive) >>,
      << LabelRow(sCode1, sLabelTerminated) >>,
      << LabelRow(sCode2, sLabelACTIVE) >>,
      << LabelRow(sCode1, sLabelActive), LabelRow(sCode2, sLabelACTIVE) >>,
      << LabelRow(sCode1, sLabelTerminated), LabelRow(sCode2, sLabelActive) >>,
      << LabelRow(sCode2, sLabelActive), LabelRow(sCode1, sLabelTerminated) >>,
      << LabelRow(sCode1, sLabelTerminated), LabelRow(sCode2, sLabelTerminated) >> }

ClassTenant(s) ==
    \E n \in 1..MaxClassPop : \E f \in [1..n -> ClassChoices] : \E table \in LabelTables :
        s = Healthy(ClassPop(n, f), table)

\* Gate family: the rows differ in manager, department, email and activity
GateChoices ==
    [org : { [mgr |-> sMgr, dept |-> sSet, code |-> sCode1],
             [mgr |-> sBlank, dept |-> sSet, code |-> sCode1],
             [mgr |-> sMgr, dept |-> None, code |-> sCode1],
             [mgr |-> sBlank, dept |-> None, code |-> sCode2] },
     email : {None, sMailA, sMailA2, sMailNA}]

GatePerson(i, c) ==
    [Person(i) EXCEPT !.managerId = c.org.mgr, !.department = c.org.dept, !.email = c.email,
                      !.emplStatus = c.org.code]

GatePop(n, f) == [i \in 1..n |-> GatePerson(i, f[i])]

GateTenant(s) ==
    \E n \in 0..MaxGatePop : \E f \in [1..n -> GateChoices] :
        s = Healthy(GatePop(n, f), ActiveTable)

\* Risk family: seven active rows, the emails of the duplicate-email example
\* (a, a, a, b, b, c) and one more; the first rows lack manager, company+location, email
P5Emails == << sMailA, sMailA2, sMailA, sMailB, sMailB, sMailC >>

P5Pop == [i \in 1..Len(P5Emails) |-> [Person(i) EXCEPT !.email = P5Emails[i]]]

RiskPop(a, b, c) ==
    [i \in 1..7 |->
        [Person(i) EXCEPT !.managerId = IF i <= a THEN None ELSE sMgr,
                          !.company = IF i <= b THEN <<>> ELSE sSet,
                          !.location = IF i <= b THEN sBlank ELSE sSet,
                          !.email = IF i <= c THEN sMailNA
                                    ELSE IF i <= Len(P5Emails) THEN P5Emails[i] ELSE @]]

RiskTenant(s) ==
    \/ \E a \in 0..MaxRiskDefects, b \in 0..MaxRiskDefects, c \in 0..MaxRiskDefects :
          s = Healthy(RiskPop(a, b, c), ActiveTable)
    \/ s = Healthy(P5Pop, ActiveTable)

\* Bulk family: more flagged rows than a sample holds
BulkDefects == [i \in 1..(MAX_SAMPLE + 1) |->
    [Person(i) EXCEPT !.managerId = sBlank, !.department = None, !.email = None]]

\* one EmpJob row, and EmpEmployment rows of MAX_SAMPLE + 1 contingent workers
BulkContingent ==
    [Healthy(<<Person(1)>>, ActiveTable) EXCEPT
        !.emp = Returns([i \in 1..(MAX_SAMPLE + 1) |->
                            [userId |-> Uid(i), isContingentWorker |-> sTrue]])]

BulkInactive == [i \in 1..(MAX_SAMPLE + 1) |-> [Person(i) EXCEPT !.emplStatus = sCode2]]

BulkDuplicates == [i \in 1..(2 * (MAX_SAMPLE + 1)) |->
    [Person(i) EXCEPT !.email = <<"e">> \o Dec(((i - 1) % (MAX_SAMPLE + 1)) + 1) \o <<"@", "x">>]]

BulkTenant(s) ==
    \/ s = Healthy(BulkDefects, ActiveTable)
    \/ s = Healthy(BulkInactive, ActiveTable)
    \/ s = Healthy(BulkDuplicates, ActiveTable)
    \/ s = BulkContingent

\* Acquisition family: the queries fail or answer in every way the loops tell apart
ContractorPop ==
    << [Person(1) EXCEPT !.employeeClass = sContractor, !.isContingentWorker = sTrue],
       [Person(2) EXCEPT !.emplStatus = sCode2, !.status = sF] >>

LeadingErr(n, then) == [i \in 1..Len(empjob_selects) |-> IF i <= n THEN "err" ELSE then]

FilteredPatterns == { LeadingErr(n, then) : n \in 0..Len(empjob_selects), then \in {"rows", "empty"} }

UnfilteredPatterns ==
    { [i \in 1..Len(empjob_selects) |-> IF i < n THEN before ELSE "rows"] :
        n \in 1..(Len(empjob_selects) + 1), before \in {"err", "empty"} }
    \cup { <<"err", "empty", "err", "empty">> }

AcqTenant(s) ==
    \E user \in {"ok", "err"}, jf \in FilteredPatterns, jn \in UnfilteredPatterns,
       via \in 1..5, emp \in {"ok", "filter", "down"} :
        s = Tenant(ContractorPop, TRUE, user, jf, jn, ActiveTable, via, emp)

\* Outage family: the first n filtered EmpJob attempts time out, the others answer
LeadingDown(n) == [i \in 1..Len(empjob_selects) |-> IF i <= n THEN "down" ELSE "rows"]

OutageTenant(s) ==
    \E n \in 1..Len(empjob_selects) :
        s = Tenant(ContractorPop, TRUE, "ok", LeadingDown(n), AllRows, ActiveTable, 1, "ok")

\* History family: the filtered EmpJob attempts give nothing and the query
\* without filter returns two rows of U1 (status codes c1, then c2) and the row
\* of U2; User and EmpEmployment hold one row per person.
HistoryRows(c1, c2) ==
    << [Person(1) EXCEPT !.emplStatus = c1], [Person(1) EXCEPT !.emplStatus = c2], Person(2) >>

HistoryTenant(s) ==
    \E c1 \in {sCode1, sCode2}, c2 \in {sCode1, sCode2}, kind \in {"err", "empty"} :
        LET jf == [i \in 1..Len(empjob_selects) |-> kind]
            t  == Tenant(HistoryRows(c1, c2), TRUE, "ok", jf, AllRows, ActiveTable, 1, "ok")
            u  == Healthy(<<Person(1), Person(2)>>, ActiveTable)
        IN  s = [t EXCEPT !.user = u.user, !.emp = u.emp, !.emp2 = u.emp2]

\* End-to-end family: three EmpJob rows, U1 (active code, manager M1, org set),
\* U2 (terminated code, manager blank), U3 (active code, manager M2, department
\* blank); User emails a@x.com, none, a@x.com. The two status codes are the
\* letters A and T or the numbers 1 and 2, the table labels them Active and
\* Terminated, and each User.status is absent, "t" or "f".
sCodeA == <<"A">>
sCodeT == <<"T">>
sMailAXCom == <<"a", "@", "x", ".", "c", "o", "m">>

E2EStatuses == {None, sT, sF}

E2EPop(act, term, st) ==
    << [Person(1) EXCEPT !.emplStatus = act, !.managerId = <<"M", "1">>,
                         !.email = sMailAXCom, !.status = st[1]],
       [Person(2) EXCEPT !.emplStatus = term, !.managerId = <<>>,
                         !.email = None, !.status = st[2]],
       [Person(3) EXCEPT !.emplStatus = act, !.managerId = <<"M", "2">>, !.department = <<>>,
                         !.email = sMailAXCom, !.status = st[3]] >>

E2ETable(act, term) == << LabelRow(act, sLabelActive), LabelRow(term, sLabelTerminated) >>

E2ELetters(st) == Healthy(E2EPop(sCodeA, sCodeT, st), E2ETable(sCodeA, sCodeT))

E2ENumbers(st) == Healthy(E2EPop(sCode1, sCode2, st), E2ETable(sCode1, sCode2))

E2ETenant(s) ==
    \E st \in [1..3 -> E2EStatuses] : s = E2ELetters(st) \/ s = E2ENumbers(st)

(***************************************************************************)
(* The core specification: run_ec_gates over every tenant                  *)
(***************************************************************************)
NoReq == [instance_url |-> None, api_base_url |-> None, username |-> None,
          password |-> None, company_id |-> None]

\* no SFClient.get_all call is being followed
NoCall == [pc |-> "idle", top |-> 0, skip |-> 0, out |-> <<>>]

NoResponse == [status |-> 0, ok |-> FALSE, detail |-> <<>>, metrics |-> NoMetrics]

Init ==
    /\ \/ ClassTenant(sf)
       \/ GateTenant(sf)
       \/ RiskTenant(sf)
       \/ BulkTenant(sf)
       \/ AcqTenant(sf)
       \/ E2ETenant(sf)
       \/ OutageTenant(sf)
       \/ HistoryTenant(sf)
    /\ metrics = NoMetrics
    /\ req = NoReq
    /\ response = NoResponse
    /\ snapshots = <<>>
    /\ call = NoCall

\* the call run_ec_gates(sf) of a run: metrics is what it returned
RunEcGates ==
    /\ metrics = NoMetrics
    /\ metrics' \in run_ec_gates(sf)
    /\ UNCHANGED <<sf, req, response, snapshots, call>>

Next == RunEcGates

Spec == Init /\ [][Next]_vars

(***************************************************************************)
(* The API specification: POST /run requests against a tenant, over a      *)
(* snapshots table that may already hold a snapshot of an earlier run      *)
(***************************************************************************)
MaxSnapshots == 3

sInstance == <<"h", "t", "t", "p", ":", "/", "/", "t", "/">>
sApi == <<"h", "t", "t", "p", ":", "/", "/", "a">>

Requests ==
    [instance_url : {None, <<"/">>, sInstance},
     api_base_url : {None, <<"/", " ", "/">>, sApi},
     username : {None, <<" ">>, <<"u">>},
     password : {None, <<"p">>},
     company_id : {None, <<" ", "C", " ">>}]

EarlierSnapshot ==
    [metrics |-> [instance_url |-> <<"h", "t", "t", "p", ":", "/", "/", "t">>,
                  api_base_url |-> sApi, company_id |-> <<>>,
                  core |-> [snapshot_time_utc |-> "earlier"]]]

InitApi ==
    /\ \E probe \in BOOLEAN :
          \/ sf = Tenant(ContractorPop, probe, "ok", AllRows, AllRows, ActiveTable, 1, "ok")
          \/ sf = Tenant(ContractorPop, probe, "ok", LeadingErr(4, "rows"), LeadingErr(4, "rows"),
                         ActiveTable, 1, "ok")
          \/ sf = Tenant(ContractorPop, probe, "err", AllRows, AllRows, ActiveTable, 1, "down")
          \/ sf = Tenant(P5Pop, probe, "ok", AllRows, AllRows, ActiveTable, 1, "ok")
    /\ metrics = NoMetrics
    /\ req = NoReq
    /\ response = NoResponse
    /\ snapshots \in {<<>>, <<EarlierSnapshot>>}
    /\ call = NoCall

\* one POST /run request
RunNow ==
    /\ Len(snapshots) < MaxSnapshots
    /\ \E r \in Requests : \E out \in run_now(r, sf, snapshots) :
          /\ req' = r
          /\ response' = out.response
          /\ snapshots' = out.snapshots
    /\ UNCHANGED <<sf, metrics, call>>

NextApi == RunNow

SpecApi == InitApi /\ [][NextApi]_vars

(***************************************************************************)
(* The paging specification: one SFClient.get_all call against a server    *)
(* that answers each page request as it likes.  call.pc is "request" at    *)
(* the top of the while loop, "done" after return out, "raised" when       *)
(* _request raised; call.top is int(params["$top"]), call.skip and         *)
(* call.out are the locals skip and out.  A row is its position in the     *)
(* server's collection.                                                    *)
(***************************************************************************)
\* the page sizes followed: the default of get_all and small sizes a caller sets
DefaultTop == 1000
MaxSmallTop == 4
Tops == (1..MaxSmallTop) \cup {DefaultTop}

\* full pages a call is followed through
MaxPages == 5

\* the numbers of rows a server returns for a page request with $top = top
PageLengths(top) == IF top <= MaxSmallTop THEN 0..top ELSE {0, 1, top - 1, top}

\* the rows at $skip = skip of a page of n rows
PageRows(skip, n) == [i \in 1..n |-> skip + i]

\* get_all up to the loop: params.setdefault("$top", 1000); out = []; skip = 0
InitGetAll ==
    /\ sf = Healthy(<<>>, <<>>)
    /\ metrics = NoMetrics
    /\ req = NoReq
    /\ response = NoResponse
    /\ snapshots = <<>>
    /\ \E top \in Tops : call = [pc |-> "request", top |-> top, skip |-> 0, out |-> <<>>]

\* j = self._request(path, params) raises: the exception leaves get_all
GetAllRaises ==
    /\ call.pc = "request"
    /\ call.skip < MaxPages * call.top
    /\ call' = [call EXCEPT !.pc = "raised"]
    /\ UNCHANGED <<sf, metrics, req, response, snapshots>>

\* one pass of the loop body that ends in a break: no results, or fewer than $top
GetAllShortPage ==
    /\ call.pc = "request"
    /\ call.skip < MaxPages * call.top
    /\ \E n \in PageLengths(call.top) :
          /\ n < call.top
          /\ call' = [call EXCEPT !.pc = "done", !.out = @ \o PageRows(call.skip, n)]
    /\ UNCHANGED <<sf, metrics, req, response, snapshots>>

\* one pass of the loop body on a full page: out.extend(results); skip += $top
GetAllFullPage ==
    /\ call.pc = "request"
    /\ call.skip < MaxPages * call.top
    /\ \E n \in PageLengths(call.top) :
          /\ n >= call.top
          /\ call' = [call EXCEPT !.out = @ \o PageRows(call.skip, n), !.skip = @ + call.top]
    /\ UNCHANGED <<sf, metrics, req, response, snapshots>>

NextGetAll == GetAllRaises \/ GetAllShortPage \/ GetAllFullPage

SpecGetAll == InitGetAll /\ [][NextGetAll]_vars

(***************************************************************************)
(* Properties                                                              *)
(***************************************************************************)
\* run_ec_gates has returned a metrics dict for sf
Ran == metrics # NoMetrics

AllJobAttemptsFail(s) ==
    \A i \in 1..Len(empjob_selects) : s.jobF[i].raises /\ s.jobN[i].raises

\* C1: if every EmpJob acquisition attempt of a run fails, the run fails:
\* run_ec_gates yields no metrics record.
C1_JobsFailureIsFatal == AllJobAttemptsFail(sf) => ~Ran

\* C2: if the Users acquisition raises, the run produces no metrics record; it
\* does not continue with an empty Users set.
C2_UsersFailureIsFatal == sf.user.raises => ~Ran

ValidRequest(r) ==
    /\ normalize_base_url(r.instance_url) # <<>>
    /\ normalize_base_url(r.api_base_url) # <<>>
    /\ make_sf_client(normalize_base_url(r.api_base_url), r.username, r.password) = ""

JobsAcquired(s) == JobsStage(s).jobs # <<>>

Answered == response # NoResponse

\* C3: a POST /run with valid scope and credentials, a successful probe, and
\* Users and Jobs acquired with at least one Job row completes: the response
\* is ok with the metrics, and the snapshot persisted last carries
\* instance_url, api_base_url and company_id of the request.
C3_ValidRunCompletes ==
    (Answered /\ ValidRequest(req) /\ sf.probe /\ ~sf.user.raises /\ JobsAcquired(sf))
    => /\ response.ok
       /\ response.metrics # NoMetrics
       /\ snapshots # <<>>
       /\ snapshots[Len(snapshots)].metrics = response.metrics
       /\ response.metrics.instance_url = normalize_base_url(req.instance_url)
       /\ response.metrics.api_base_url = normalize_base_url(req.api_base_url)

\* C4: each POST /run is all-or-nothing: a request that ends in a failure
\* leaves the snapshots table as it was, a request that returns ok appends
\* exactly one snapshot whose metrics are the returned metrics, and no
\* existing snapshot is modified or removed.
C4_AllOrNothing ==
    [][ /\ (~response'.ok => snapshots' = snapshots)
        /\ (response'.ok => snapshots' = Append(snapshots, [metrics |-> response'.metrics]))
        /\ SubSeq(snapshots', 1, Len(snapshots)) = snapshots ]_vars

\* a run failed in the core (HTTP 500) and the earlier snapshot is still the table
C4_Witness == response.status = 500 /\ snapshots = <<EarlierSnapshot>>

IsContractor(j) == Lower(Strip(Str(j.employeeClass))) = Lower(sContractor)

\* C5: when both EmpEmployment queries fail, the run still returns metrics and
\* the contingent count comes from the Job-level heuristic: with exactly one
\* Job row whose employeeClass is "Contractor", contingent_workers = 1 and
\* contingent_source names the fallback.
C5_ContingentFallback ==
    LET jobs == JobsStage(sf).jobs
    IN  (/\ Ran
         /\ sf.emp.raises /\ sf.emp2.raises
         /\ Cardinality({i \in 1..Len(jobs) : IsContractor(jobs[i])}) = 1)
        => /\ metrics.contingent_workers = 1
           /\ metrics.contingent_source \notin
                 {"not-available", "EmpEmployment.isContingentWorker",
                  "EmpEmployment.isContingentWorker (no-filter)"}

\* the verdict of a run on the row j, read from the returned inactive sample
\* (complete while there are at most MAX_SAMPLE inactive rows)
ReportedInactive(j) ==
    \E i \in 1..Len(metrics.inactive_users_sample) :
        metrics.inactive_users_sample[i].userId = j.userId

\* C6: with a non-empty code-to-label map that contains a row's status code,
\* the row is active if and only if its label, trimmed and lower-cased, is
\* "active".
C6_LabelDecides ==
    LET l == Locals(sf)
    IN  (Ran /\ metrics.inactive_users <= MAX_SAMPLE)
        => \A i \in 1..Len(l.jobs) :
              LET code == _emplStatusCode(l.jobs[i])
              IN  (code # NoCode /\ DictHas(l.status_labels, code))
                  => (~ReportedInactive(l.jobs[i])
                      <=> IsActiveLabel(DictGet(l.status_labels, code, None)))

\* C7: every Job row is in exactly one of the active and inactive partitions,
\* so active_users + inactive_users = empjob_rows.
C7_ClassificationTotal ==
    Ran => LET l == Locals(sf)
           IN  /\ metrics.empjob_rows = Len(l.jobs)
               /\ metrics.active_users + metrics.inactive_users = metrics.empjob_rows
               /\ \A i \in 1..Len(l.jobs) :
                     Occurrences(l.active_jobs, l.jobs[i]) + Occurrences(l.inactive_jobs, l.jobs[i])
                        = Occurrences(l.jobs, l.jobs[i])

\* a run that classified by an inferred code, over rows one of which has no
\* code, with both partitions non-empty
C7_Witness ==
    /\ Ran
    /\ metrics.active_users > 0 /\ metrics.inactive_users > 0
    /\ \E i \in 1..Len(Locals(sf).jobs) : _emplStatusCode(Locals(sf).jobs[i]) = NoCode
    /\ metrics.active_emplStatus_code_inferred # NoCode

\* C8: 0 <= risk_score <= 100, and risk_score = 0 when the four defect counts
\* are all 0 (the empty active population included).
C8_RiskBounds ==
    Ran => /\ 0 <= metrics.risk_score /\ metrics.risk_score <= 100
           /\ (/\ metrics.missing_manager_count = 0 /\ metrics.invalid_org_count = 0
               /\ metrics.missing_email_count = 0 /\ metrics.duplicate_email_count = 0)
              => metrics.risk_score = 0

\* a run in which every term of the score is at its cap
C8_Witness == Ran /\ metrics.risk_score = 100

\* the raw email of the User row of uid (None without a row)
RawEmail(l, uid) == DictGet(l.user_by_id, uid, NoRow).email

\* C9: for each of the six checks the sample has at most min(count, 200)
\* entries, and every sample entry is a record the count counted.
C9_SampleConsistency ==
    Ran =>
    LET l    == Locals(sf)
        act  == l.active_jobs
        uids == active_uids(act)
        raw  == [i \in 1..Len(uids) |-> RawEmail(l, uids[i])]
        Within(n, count) == n <= Min(count, MAX_SAMPLE)
    IN  Then(raw,
        /\ metrics.missing_manager_count
              = Cardinality({i \in 1..Len(act) : is_blank(act[i].managerId)})
        /\ Within(Len(metrics.missing_manager_sample), metrics.missing_manager_count)
        /\ \A k \in 1..Len(metrics.missing_manager_sample) :
              \E i \in 1..Len(act) :
                  /\ act[i].userId = metrics.missing_manager_sample[k].userId
                  /\ is_blank(act[i].managerId)
        /\ metrics.invalid_org_count
              = Cardinality({i \in 1..Len(act) : \E f \in 1..Len(ORG_FIELDS) : is_blank(act[i][ORG_FIELDS[f]])})
        /\ Within(Len(metrics.invalid_org_sample), metrics.invalid_org_count)
        /\ \A k \in 1..Len(metrics.invalid_org_sample) :
              \E i \in 1..Len(act) :
                  /\ act[i].userId = metrics.invalid_org_sample[k].userId
                  /\ \E f \in 1..Len(ORG_FIELDS) : is_blank(act[i][ORG_FIELDS[f]])
        /\ metrics.missing_email_count
              = Cardinality({i \in 1..Len(uids) : is_missing_email_value(raw[i])})
        /\ Within(Len(metrics.missing_email_sample), metrics.missing_email_count)
        /\ \A k \in 1..Len(metrics.missing_email_sample) :
              \E i \in 1..Len(uids) :
                  /\ uids[i] = metrics.missing_email_sample[k].userId
                  /\ is_missing_email_value(raw[i])
        /\ Within(Len(metrics.duplicate_email_sample), metrics.duplicate_email_count)
        /\ \A k \in 1..Len(metrics.duplicate_email_sample) :
              LET e == metrics.duplicate_email_sample[k]
              IN  /\ e.count > 1
                  /\ e.count = Len(DictGet(l.email.groups, e.email, <<>>))
                  /\ \A m \in 1..Len(e.sampleUserIds) :
                        \E i \in 1..Len(uids) :
                            /\ uids[i] = e.sampleUserIds[m]
                            /\ ~is_missing_email_value(raw[i])
                            /\ Lower(Strip(raw[i])) = e.email
        /\ metrics.inactive_users = Len(l.inactive_jobs)
        /\ Within(Len(metrics.inactive_users_sample), metrics.inactive_users)
        /\ \A k \in 1..Len(metrics.inactive_users_sample) :
              \E i \in 1..Len(l.inactive_jobs) :
                  l.inactive_jobs[i].userId = metrics.inactive_users_sample[k].userId
        /\ metrics.contingent_workers = Cardinality(l.contingent_uids)
        /\ Within(Cardinality(metrics.contingent_workers_sample), metrics.contingent_workers)
        /\ \A e \in metrics.contingent_workers_sample : e.userId \in l.contingent_uids)

\* a run with more rows missing a manager than the sample holds
C9_Witness ==
    /\ Ran
    /\ metrics.missing_manager_count > MAX_SAMPLE
    /\ Len(metrics.missing_manager_sample) = MAX_SAMPLE

\* C10: duplicate_email_count is the sum of (groupSize - 1) over the groups of
\* the active employees' non-missing emails by trimmed lower-cased value, that
\* is the number of such emails minus the number of distinct values; for the
\* emails a, a, a, b, b, c it is 3 and missing_email_count is 0.
C10_DuplicateEmailCount ==
    Ran =>
    LET l       == Locals(sf)
        uids    == active_uids(l.active_jobs)
        raw     == [i \in 1..Len(uids) |-> RawEmail(l, uids[i])]
        present == {i \in 1..Len(uids) : ~is_missing_email_value(raw[i])}
        values  == {Lower(Strip(raw[i])) : i \in present}
    IN  Then(raw,
        /\ metrics.duplicate_email_count = Cardinality(present) - Cardinality(values)
        /\ sf = Healthy(P5Pop, ActiveTable)
              => metrics.duplicate_email_count = 3 /\ metrics.missing_email_count = 0)

\* the run over the six active employees with emails a, a, a, b, b, c
C10_Witness == Ran /\ sf = Healthy(P5Pop, ActiveTable) /\ metrics.active_users = 6

\* the counts and the score of the end-to-end scenario A
ScenarioAExpected ==
    /\ metrics.active_users = 2 /\ metrics.inactive_users = 1
    /\ metrics.missing_manager_count = 0 /\ metrics.invalid_org_count = 1
    /\ metrics.missing_email_count = 0 /\ metrics.duplicate_email_count = 1
    /\ metrics.risk_score = 50

\* C11: the hygiene checks count active employees only (no gate count exceeds
\* active_users), and the run over the scenario-A input (U1 code A, U2 code T
\* with blank manager, U3 code A with blank department; labels A = Active,
\* T = Terminated; emails a@x.com, missing, a@x.com) yields active_users = 2,
\* inactive_users = 1, missing_manager_count = 0, invalid_org_count = 1,
\* missing_email_count = 0, duplicate_email_count = 1 and risk_score = 50.
C11_ScenarioA ==
    Ran => /\ metrics.missing_manager_count <= metrics.active_users
           /\ metrics.invalid_org_count <= metrics.active_users
           /\ metrics.missing_email_count <= metrics.active_users
           /\ metrics.duplicate_email_count <= metrics.active_users
           /\ (\E st \in [1..3 -> E2EStatuses] : sf = E2ELetters(st)) => ScenarioAExpected

\* the same rows with the status codes 1 and 2 in place of A and T
ScenarioANumeric ==
    (Ran /\ \E st \in [1..3 -> E2EStatuses] : sf = E2ENumbers(st)) => ScenarioAExpected

\* the cause of a failed query is the server rejecting the query itself
IsQueryRejection(cause) == cause = "HTTPError: 400 Client Error"

\* C12: a User or EmpJob query that fails for another reason than a rejected
\* query (authentication, network, timeout) stops the run: no returned metrics
\* record lists such a failure among its errors.
C12_OnlyRejectionFallsBack ==
    Ran => \A e \in metrics.errors :
              e.k.entity \in {"User", "EmpJob"} => IsQueryRejection(e.v)

\* C13: when the code-to-label map of the run is not empty, a row without a
\* status code is active if and only if the User row of its userId is active
\* by _user_is_active.
C13_CodelessByUserFlag ==
    LET l == Locals(sf)
    IN  (Ran /\ metrics.inactive_users <= MAX_SAMPLE /\ l.status_labels # <<>>)
        => \A i \in 1..Len(l.jobs) :
              _emplStatusCode(l.jobs[i]) = NoCode
              => (~ReportedInactive(l.jobs[i])
                  <=> _user_is_active(DictGet(l.user_by_id, Str(l.jobs[i].userId), NoRow)))

\* the userIds of a sequence of EmpJob rows
UserIdsOf(rows) == {rows[i].userId : i \in 1..Len(rows)}

\* C14: within one run no userId is in both the active and the inactive
\* partition, and a userId is counted at most once in active_users, also when
\* the Jobs row set holds several rows of one userId.
C14_OneVerdictPerUser ==
    Ran => LET l == Locals(sf)
           IN  /\ UserIdsOf(l.active_jobs) \cap UserIdsOf(l.inactive_jobs) = {}
               /\ metrics.active_users = Cardinality(UserIdsOf(l.active_jobs))

\* what the loop of get_all keeps: pages are asked at $skip = 0, top, 2*top, ...,
\* the call goes on only after full pages, ends at the first short page, and
\* out is the rows of the pages in order
GetAllPaging ==
    /\ call.pc = "request" => call.skip % call.top = 0 /\ Len(call.out) = call.skip
    /\ call.pc = "done" => /\ call.skip % call.top = 0
                            /\ call.skip <= Len(call.out) /\ Len(call.out) < call.skip + call.top
    /\ call.pc # "idle" => call.out = PageRows(0, Len(call.out))

\* C15: SFClient.get_all always terminates: against a server that keeps
\* returning full pages a page cap ends the call, so no call is still asking
\* for a page after MaxPages full pages; it asks at $skip = 0, top, 2*top, ...,
\* stops at the first short page, and returns the pages in order.
C15_GetAllTerminates ==
    /\ GetAllPaging
    /\ call.pc = "request" => call.skip < MaxPages * call.top

====
